---- MODULE Spec2Model ----
(***************************************************************************)
(* Model of the executable snippets of the two guides, src/Guide.tsx and   *)
(* src/KeyPoint.tsx.  The snippets share no state, so each one has its own *)
(* specification over its own variables; the variables of the other        *)
(* snippets stay at their initial values.                                  *)
(*                                                                         *)
(*   SpecReducer  counterReducer under useReducer     (Guide.tsx 161-179)  *)
(*   SpecError    handleError and its type guards     (KeyPoint.tsx 349-389)*)
(*   SpecTheme    ThemeProvider / useTheme            (KeyPoint.tsx 194-239)*)
(*   SpecForm     form / errors state, updateField    (Guide.tsx 361-385)  *)
(*   SpecMedia    isPhoto / isVideo / MediaItem       (Guide.tsx 424-472)  *)
(*   SpecLoad     fetchUser / loadUserData            (Guide.tsx 274-300)  *)
(***************************************************************************)
EXTENDS Integers, Sequences, FiniteSets, TLC

VARIABLES
    state, prevState, lastAction,                  \* useReducer(counterReducer, 0)
    errInput, errOutput,                           \* handleError(error)
    providers, themeResult,                        \* ThemeProvider nesting, useTheme()
    form, errors, pending, closureErrors, lastCall,\* login form component
    media, rendered,                               \* MediaItem({ media })
    pc, response, settled, calls, user, error, loading, consoleLog, runs
                                                   \* loadUserData()

reducerVars == <<state, prevState, lastAction>>
errorVars   == <<errInput, errOutput>>
themeVars   == <<providers, themeResult>>
formVars    == <<form, errors, pending, closureErrors, lastCall>>
mediaVars   == <<media, rendered>>
loadVars    == <<pc, response, settled, calls, user, error, loading, consoleLog, runs>>
vars == <<reducerVars, errorVars, themeVars, formVars, mediaVars, loadVars>>

\* JavaScript's undefined
Undefined == "<undefined>"
\* JavaScript's null
Null == "<null>"
\* null and undefined where the other values of the variable are objects
NullValue      == [class |-> Null, typeof |-> "object"]
UndefinedValue == [class |-> Null, typeof |-> "undefined"]
\* A function that has not been called yet has produced no result: a string
\* where results are strings, a record where they are objects
NotCalled == "<not called>"
NoResult  == [called |-> FALSE]

(***************************************************************************)
(* counterReducer (Guide.tsx 161-179)                                      *)
(***************************************************************************)

\* Largest payload magnitude a dispatched action carries
MaxPayload == 2
\* Largest counter magnitude explored
MaxCount == 6

Payloads == (0 - MaxPayload)..MaxPayload

\* type Action: the three declared shapes
Action ==
    [type : {"INCREMENT", "DECREMENT"}, payload : Payloads] \cup {[type |-> "RESET"]}

\* What an untyped caller can dispatch as well: a type outside the union,
\* which the switch sends to its default branch
DispatchedActions == Action \cup {[type |-> "UNKNOWN"]}

counterReducer_DecrementAdds(s, action) ==
    CASE action.type = "INCREMENT" -> s + action.payload
      [] action.type = "DECREMENT" -> s + action.payload
      [] action.type = "RESET"     -> 0
      [] OTHER                     -> s

counterReducer(s, action) ==
    CASE action.type = "INCREMENT" -> s + action.payload
      [] action.type = "DECREMENT" -> s - action.payload
      [] action.type = "RESET"     -> 0
      [] OTHER                     -> s

InitReducer ==
    /\ state = 0
    /\ prevState = 0
    /\ lastAction = [type |-> "none"]

\* dispatch(action): React stores counterReducer(state, action) as the new state
Dispatch ==
    \E action \in DispatchedActions :
        /\ counterReducer(state, action) \in (0 - MaxCount)..MaxCount
        /\ state' = counterReducer(state, action)
        /\ prevState' = state
        /\ lastAction' = action
        /\ UNCHANGED <<errorVars, themeVars, formVars, mediaVars, loadVars>>

(***************************************************************************)
(* ApiError, ValidationError, type guards, handleError                     *)
(* (KeyPoint.tsx 349-389)                                                  *)
(***************************************************************************)

\* Number of distinct HTTP status codes an ApiError is built with
MaxStatuses == 4
\* Number of distinct messages an error object is built with
MaxMessages == 4
\* Number of distinct field names a ValidationError is built with
MaxFields == 3

AllStatuses == <<404, 500, 0, 401, 403, 503>>
AllMessages == <<"Not Found", "", "boom", "x: y", "timeout", "denied">>
AllFields   == <<"email", "password", "", "rememberMe", "name">>

Upto(seq, n) == {seq[i] : i \in 1..(IF n < Len(seq) THEN n ELSE Len(seq))}

Statuses == Upto(AllStatuses, MaxStatuses)
Messages == Upto(AllMessages, MaxMessages)
Fields   == Upto(AllFields, MaxFields)

\* The class hierarchy: the constructor a class extends.  ApiError and
\* ValidationError extend Error; TypeError and SyntaxError are built-in
\* subclasses of Error;
\* Error extends Object, whose prototype chain ends.
SuperClass(c) ==
    CASE c = "ApiError"        -> "Error"
      [] c = "ValidationError" -> "Error"
      [] c = "TypeError"       -> "Error"
      [] c = "SyntaxError"     -> "Error"
      [] c = "Error"           -> "Object"
      [] OTHER                 -> Null

\* new Error(message), new TypeError(message): an object of a class without
\* fields of its own
NewError(class, message) == [class |-> class, message |-> message]

\* new ApiError(message, status)
NewApiError(message, status) ==
    [class |-> "ApiError", message |-> message, status |-> status]

\* new ValidationError(message, field)
NewValidationError(message, field) ==
    [class |-> "ValidationError", message |-> message, field |-> field]

\* { message, status }: an object literal that merely looks like an ApiError
PlainObject(message, status) ==
    [class |-> "Object", message |-> message, status |-> status]

\* Primitive values have no prototype chain of constructors to test
StringValue(s) == [class |-> Null, typeof |-> "string", str |-> s]
NumberValue(n) == [class |-> Null, typeof |-> "number", num |-> n]

\* Everything a catch clause can receive (error: unknown)
ThrownValues ==
    {NewApiError(m, s) : m \in Messages, s \in Statuses}
    \cup {NewValidationError(m, f) : m \in Messages, f \in Fields}
    \cup {NewError("Error", m) : m \in Messages}
    \cup {NewError("TypeError", m) : m \in Messages}
    \cup {PlainObject(m, s) : m \in Messages, s \in Statuses}
    \cup {StringValue(m) : m \in Messages}
    \cup {NumberValue(s) : s \in Statuses}
    \cup {NullValue, UndefinedValue}

RECURSIVE ProtoChain(_)
\* The constructors on the prototype chain of an object of class c
ProtoChain(c) == IF c = Null THEN {} ELSE {c} \cup ProtoChain(SuperClass(c))

\* value instanceof C
InstanceOf(value, C) == C \in ProtoChain(value.class)

isApiError(e) == InstanceOf(e, "ApiError")

isValidationError(e) == InstanceOf(e, "ValidationError")

\* `${n}` : a number converted to its decimal string by a template literal
NumStr(n) == ToString(n)

handleError_GenericFirst(e) ==
    IF InstanceOf(e, "Error") THEN
        "Error: " \o e.message
    ELSE IF isApiError(e) THEN
        "API Error (" \o NumStr(e.status) \o "): " \o e.message
    ELSE IF isValidationError(e) THEN
        "Validation Error in " \o e.field \o ": " \o e.message
    ELSE
        "An unknown error occurred"

handleError(e) ==
    IF isApiError(e) THEN
        "API Error (" \o NumStr(e.status) \o "): " \o e.message
    ELSE IF isValidationError(e) THEN
        "Validation Error in " \o e.field \o ": " \o e.message
    ELSE IF InstanceOf(e, "Error") THEN
        "Error: " \o e.message
    ELSE
        "An unknown error occurred"

InitError ==
    /\ errInput \in ThrownValues
    /\ errOutput = NotCalled

\* The error snippet is not running
ParkedError ==
    /\ errInput = UndefinedValue
    /\ errOutput = NotCalled

\* const message = handleError(error)
HandleError ==
    /\ errOutput = NotCalled
    /\ errOutput' = handleError(errInput)
    /\ UNCHANGED <<errInput, reducerVars, themeVars, formVars, mediaVars, loadVars>>

(***************************************************************************)
(* ThemeContext, ThemeProvider, useTheme (KeyPoint.tsx 179-239)            *)
(***************************************************************************)

\* Deepest nesting of ThemeProviders around the calling component
MaxProviders == 4

\* type Theme
Theme == {"light", "dark", "system"}

\* const defaultColors: Record<Theme, ThemeColors>
defaultColors ==
    [t \in Theme |->
        IF t = "dark"
        THEN [background |-> "#000000", text |-> "#FFFFFF",
              primary |-> "#0A84FF", secondary |-> "#5E5CE6"]
        ELSE [background |-> "#FFFFFF", text |-> "#000000",
              primary |-> "#007AFF", secondary |-> "#5856D6"]]

\* createContext<ThemeContextType | undefined>(undefined): the value a
\* consumer reads when no Provider encloses it
ThemeContextDefault == UndefinedValue

\* The value object ThemeProvider number i (outermost is 1) hands to its
\* Provider; providers[i] is that provider's theme state, and setTheme is
\* identified by the provider whose state it sets
ThemeProviderValue(i) ==
    [theme |-> providers[i], colors |-> defaultColors[providers[i]], setTheme |-> i]

\* useContext(ThemeContext): the value of the nearest enclosing Provider,
\* the context's default when there is none
useContext ==
    IF Len(providers) = 0 THEN ThemeContextDefault
    ELSE ThemeProviderValue(Len(providers))

\* A call's outcome: a returned value or a thrown error
Returned(v) == [threw |-> FALSE, value |-> v]
Threw(message) == [threw |-> TRUE, message |-> message]

useTheme_NoCheck == Returned(useContext)

useTheme ==
    IF useContext = UndefinedValue
    THEN Threw("useTheme must be used within a ThemeProvider")
    ELSE Returned(useContext)

InitTheme ==
    /\ providers = <<>>
    /\ themeResult = NoResult

\* The component is wrapped in one more <ThemeProvider>, whose theme state
\* starts at 'light'; the component renders again
MountProvider ==
    /\ Len(providers) < MaxProviders
    /\ providers' = Append(providers, "light")
    /\ themeResult' = NoResult
    /\ UNCHANGED <<reducerVars, errorVars, formVars, mediaVars, loadVars>>

\* The innermost <ThemeProvider> is removed from around the component
UnmountProvider ==
    /\ Len(providers) > 0
    /\ providers' = SubSeq(providers, 1, Len(providers) - 1)
    /\ themeResult' = NoResult
    /\ UNCHANGED <<reducerVars, errorVars, formVars, mediaVars, loadVars>>

\* setTheme(t) of provider i: its state changes and its subtree renders again
SetTheme ==
    \E i \in 1..Len(providers), t \in Theme :
        /\ providers[i] # t
        /\ providers' = [providers EXCEPT ![i] = t]
        /\ themeResult' = NoResult
        /\ UNCHANGED <<reducerVars, errorVars, formVars, mediaVars, loadVars>>

\* The component calls useTheme() during its render
CallUseTheme ==
    /\ themeResult = NoResult
    /\ themeResult' = useTheme
    /\ UNCHANGED <<providers, reducerVars, errorVars, formVars, mediaVars, loadVars>>

(***************************************************************************)
(* Login form: form / errors state and updateField (Guide.tsx 351-385)     *)
(***************************************************************************)

\* Most state updates React holds queued between two renders
MaxPending == 3

\* keyof LoginForm
LoginFields == {"email", "password", "rememberMe"}

\* LoginForm[T]: the values a field takes
FieldValues(field) == IF field = "rememberMe" THEN BOOLEAN ELSE {"", "a"}

\* The messages validation code stores in errors
ErrorTexts == {"Required", "Invalid"}

\* JavaScript truthiness of a string | undefined
Truthy(v) == v # Undefined /\ v # ""

\* One queued updater: prev => ({ ...prev, [field]: value })
SetField(field, value) == [field |-> field, value |-> value]

RECURSIVE ApplyUpdates(_, _)
\* React runs the queued updaters in the order they were queued, each on
\* the result of the one before
ApplyUpdates(prev, queue) ==
    IF queue = <<>> THEN prev
    ELSE ApplyUpdates([prev EXCEPT ![Head(queue).field] = Head(queue).value],
                      Tail(queue))

Queued == Len(pending.form) + Len(pending.errors)

InitForm ==
    /\ form = [email |-> "", password |-> "", rememberMe |-> FALSE]
    /\ errors = [f \in LoginFields |-> Undefined]
    /\ pending = [form |-> <<>>, errors |-> <<>>]
    /\ closureErrors = errors
    /\ lastCall = [op |-> "none", field |-> ""]

\* The errors queue after updateField(field, _) when the closure read `seen`
\* as the errors state
ClearError(seen, field) ==
    IF Truthy(seen[field])
    THEN Append(pending.errors, SetField(field, Undefined))
    ELSE pending.errors

\* updateField(field, value), called through the closure of the last render
UpdateField ==
    \E field \in LoginFields :
      \E value \in FieldValues(field) :
        /\ Queued + 2 <= MaxPending
        /\ pending' = [form |-> Append(pending.form, SetField(field, value)),
                       errors |-> ClearError(closureErrors, field)]
        /\ lastCall' = [op |-> "updateField", field |-> field]
        /\ UNCHANGED <<form, errors, closureErrors>>
        /\ UNCHANGED <<reducerVars, errorVars, themeVars, mediaVars, loadVars>>

\* setErrors(prev => ({ ...prev, [field]: message })), called by validation
SetErrors ==
    \E field \in LoginFields, message \in ErrorTexts :
        /\ Queued + 1 <= MaxPending
        /\ pending' = [pending EXCEPT !.errors = Append(@, SetField(field, message))]
        /\ lastCall' = [op |-> "setErrors", field |-> field]
        /\ UNCHANGED <<form, errors, closureErrors>>
        /\ UNCHANGED <<reducerVars, errorVars, themeVars, mediaVars, loadVars>>

\* React renders the component again: the queued updaters are applied, and
\* the updateField created by this render closes over the new errors
Render ==
    /\ Queued > 0
    /\ form' = ApplyUpdates(form, pending.form)
    /\ errors' = ApplyUpdates(errors, pending.errors)
    /\ closureErrors' = ApplyUpdates(errors, pending.errors)
    /\ pending' = [form |-> <<>>, errors |-> <<>>]
    /\ UNCHANGED lastCall
    /\ UNCHANGED <<reducerVars, errorVars, themeVars, mediaVars, loadVars>>

(***************************************************************************)
(* Media, isPhoto, isVideo, MediaItem (Guide.tsx 424-472)                  *)
(***************************************************************************)

\* Largest width, height and duration of a media value
MaxSize == 2
\* Number of distinct uris a media value carries
MaxUris == 3

AllUris == <<"a.jpg", "b.mp4", "", "c.png", "d.mov">>
Uris == Upto(AllUris, MaxUris)
Sizes == 0..MaxSize

\* interface PhotoMedia
PhotoMedia == [type : {"photo"}, uri : Uris, width : Sizes, height : Sizes]

\* interface VideoMedia
VideoMedia == [type : {"video"}, uri : Uris, duration : Sizes, thumbnail : Uris]

\* type Media = PhotoMedia | VideoMedia
Media == PhotoMedia \cup VideoMedia

isPhoto(m) == m.type = "photo"

isVideo_Misspelt(m) == m.type = "movie"

isVideo(m) == m.type = "video"

\* What MediaItem returns: the element tree of the branch taken
MediaItem(m) ==
    IF isPhoto(m) THEN
        [branch |-> "photo",
         image |-> [source |-> m.uri, width |-> m.width, height |-> m.height]]
    ELSE IF isVideo(m) THEN
        [branch |-> "video",
         image |-> [source |-> m.thumbnail],
         text |-> "Duration: " \o NumStr(m.duration) \o "s"]
    ELSE
        [branch |-> "null"]

InitMedia ==
    /\ media \in Media
    /\ rendered = NoResult

\* The media snippet is not running
ParkedMedia ==
    /\ media = [type |-> "photo", uri |-> "", width |-> 0, height |-> 0]
    /\ rendered = NoResult

\* React renders <MediaItem media={media} />
RenderMediaItem ==
    /\ rendered = NoResult
    /\ rendered' = MediaItem(media)
    /\ UNCHANGED <<media, reducerVars, errorVars, themeVars, formVars, loadVars>>

(***************************************************************************)
(* fetchUser and loadUserData (Guide.tsx 266-300)                          *)
(***************************************************************************)

\* Executions of loadUserData explored, one after the other
MaxRuns == 2
\* Number of distinct HTTP statuses the server answers with
MaxHttp == 3

AllHttp == <<200, 404, 500, 204, 503>>
HttpStatuses == Upto(AllHttp, MaxHttp)

\* interface User: the bodies the server sends for user 123
Users ==
    {[id |-> "123", name |-> n, email |-> n \o "@example.com", createdAt |-> "2024"]
        : n \in {"ann", "bob"}}

\* The Response fetch resolves with; ok is true for the 2xx statuses
Response(status) == [ok |-> status \in 200..299, status |-> status]

\* One state update made by loadUserData
Call(fn, arg) == [fn |-> fn, arg |-> arg]

InitLoad ==
    /\ pc = "idle"
    /\ response = NoResult
    /\ settled = NoResult
    /\ calls = <<>>
    /\ user = NullValue
    /\ error = Null
    /\ loading \in BOOLEAN
    /\ consoleLog = <<>>
    /\ runs = 0

\* The loading snippet is not running
ParkedLoad == InitLoad /\ loading = TRUE

otherThanLoad == <<reducerVars, errorVars, themeVars, formVars, mediaVars>>

\* loadUserData() is called and runs up to its await of fetchUser('123'),
\* which runs up to its await of fetch(...)
LoadUserData ==
    /\ pc \in {"idle", "done"}
    /\ runs < MaxRuns
    /\ runs' = runs + 1
    /\ pc' = "fetch"
    /\ calls' = <<>>
    /\ response' = NoResult
    /\ settled' = NoResult
    /\ UNCHANGED <<user, error, loading, consoleLog, otherThanLoad>>

\* fetch resolves with a Response
FetchResolves ==
    \E status \in HttpStatuses :
        /\ pc = "fetch"
        /\ response' = Response(status)
        /\ pc' = "checkOk"
        /\ UNCHANGED <<settled, calls, user, error, loading, consoleLog, runs, otherThanLoad>>

\* fetch rejects: the request never reached the server
FetchRejects ==
    /\ pc = "fetch"
    /\ settled' = NewError("TypeError", "Network request failed")
    /\ pc' = "fetchCatch"
    /\ UNCHANGED <<response, calls, user, error, loading, consoleLog, runs, otherThanLoad>>

\* if (!response.ok) throw new Error(`HTTP error: ${response.status}`);
\* otherwise fetchUser awaits response.json()
CheckOk ==
    /\ pc = "checkOk"
    /\ IF ~response.ok
       THEN /\ settled' = NewError("Error", "HTTP error: " \o NumStr(response.status))
            /\ pc' = "fetchCatch"
       ELSE /\ settled' = settled
            /\ pc' = "json"
    /\ UNCHANGED <<response, calls, user, error, loading, consoleLog, runs, otherThanLoad>>

\* response.json() resolves with the body; fetchUser returns it
JsonResolves ==
    \E data \in Users :
        /\ pc = "json"
        /\ settled' = data
        /\ pc' = "resolved"
        /\ UNCHANGED <<response, calls, user, error, loading, consoleLog, runs, otherThanLoad>>

\* response.json() rejects: the body is not JSON
JsonRejects ==
    /\ pc = "json"
    /\ settled' = NewError("SyntaxError", "Unexpected token")
    /\ pc' = "fetchCatch"
    /\ UNCHANGED <<response, calls, user, error, loading, consoleLog, runs, otherThanLoad>>

\* fetchUser's catch: console.error(...); throw error
FetchUserCatch ==
    /\ pc = "fetchCatch"
    /\ consoleLog' = Append(consoleLog, settled.message)
    /\ pc' = "rejected"
    /\ UNCHANGED <<response, settled, calls, user, error, loading, runs, otherThanLoad>>

\* try: const user = await fetchUser('123'); setUser(user)
LoadTry ==
    /\ pc = "resolved"
    /\ user' = settled
    /\ calls' = Append(calls, Call("setUser", settled))
    /\ pc' = "finally"
    /\ UNCHANGED <<response, settled, error, loading, consoleLog, runs, otherThanLoad>>

LoadCatch_SkipsFinally ==
    /\ pc = "rejected"
    /\ error' = settled.message
    /\ calls' = Append(calls, Call("setError", settled.message))
    /\ pc' = "done"
    /\ UNCHANGED <<response, settled, user, loading, consoleLog, runs, otherThanLoad>>

\* catch (error): setError(error.message)
LoadCatch ==
    /\ pc = "rejected"
    /\ error' = settled.message
    /\ calls' = Append(calls, Call("setError", settled.message))
    /\ pc' = "finally"
    /\ UNCHANGED <<response, settled, user, loading, consoleLog, runs, otherThanLoad>>

\* finally: setLoading(false); loadUserData's promise resolves
LoadFinally ==
    /\ pc = "finally"
    /\ loading' = FALSE
    /\ calls' = Append(calls, Call("setLoading", FALSE))
    /\ pc' = "done"
    /\ UNCHANGED <<response, settled, user, error, consoleLog, runs, otherThanLoad>>

(***************************************************************************)
(* The specifications                                                      *)
(***************************************************************************)

NextReducer == Dispatch
NextError   == HandleError
NextTheme   == MountProvider \/ UnmountProvider \/ SetTheme \/ CallUseTheme
NextForm    == UpdateField \/ SetErrors \/ Render
NextMedia   == RenderMediaItem
NextLoad    ==
    \/ LoadUserData \/ FetchResolves \/ FetchRejects \/ CheckOk \/ JsonResolves
    \/ JsonRejects \/ FetchUserCatch \/ LoadTry \/ LoadCatch \/ LoadFinally

InitReducerSpec ==
    /\ InitReducer /\ ParkedError /\ InitTheme
    /\ InitForm /\ ParkedMedia /\ ParkedLoad

InitErrorSpec ==
    /\ InitReducer /\ InitError /\ InitTheme
    /\ InitForm /\ ParkedMedia /\ ParkedLoad

InitThemeSpec ==
    /\ InitReducer /\ ParkedError /\ InitTheme
    /\ InitForm /\ ParkedMedia /\ ParkedLoad

InitFormSpec ==
    /\ InitReducer /\ ParkedError /\ InitTheme
    /\ InitForm /\ ParkedMedia /\ ParkedLoad

InitMediaSpec ==
    /\ InitReducer /\ ParkedError /\ InitTheme
    /\ InitForm /\ InitMedia /\ ParkedLoad

InitLoadSpec ==
    /\ InitReducer /\ ParkedError /\ InitTheme
    /\ InitForm /\ ParkedMedia /\ InitLoad

SpecReducer == InitReducerSpec /\ [][NextReducer]_vars

SpecError == InitErrorSpec /\ [][NextError]_vars

SpecTheme == InitThemeSpec /\ [][NextTheme]_vars

SpecForm == InitFormSpec /\ [][NextForm]_vars

SpecMedia == InitMediaSpec /\ [][NextMedia]_vars

\* Once a promise has settled, the JavaScript job queue runs the continuation
\* waiting on it; when fetch or response.json() settle is up to the network
FairLoad ==
    /\ WF_vars(CheckOk) /\ WF_vars(FetchUserCatch)
    /\ WF_vars(LoadTry) /\ WF_vars(LoadCatch) /\ WF_vars(LoadFinally)

SpecLoad == InitLoadSpec /\ [][NextLoad]_vars /\ FairLoad

(***************************************************************************)
(* Properties                                                              *)
(***************************************************************************)

C2_CounterReducerContract ==
    lastAction.type # "none" =>
        /\ lastAction.type = "INCREMENT" => state = prevState + lastAction.payload
        /\ lastAction.type = "DECREMENT" => state = prevState - lastAction.payload
        /\ lastAction.type = "RESET" => state = 0
        /\ lastAction.type \notin {"INCREMENT", "DECREMENT", "RESET"} =>
              state = prevState

\* C2 witness: a DECREMENT by 2 has taken a non-zero state below zero
C2_Witness ==
    /\ lastAction = [type |-> "DECREMENT", payload |-> 2]
    /\ prevState = 1
    /\ state = 0 - 1

\* C3: with no enclosing ThemeProvider useTheme throws 'useTheme must be
\* used within a ThemeProvider'; under ThemeProviders it returns, without
\* throwing, the value of the nearest one: its theme, the colors of that
\* theme and its setTheme.
C3_UseThemeContract ==
    themeResult # NoResult =>
        /\ Len(providers) = 0 =>
              themeResult =
                  [threw |-> TRUE,
                   message |-> "useTheme must be used within a ThemeProvider"]
        /\ Len(providers) > 0 =>
              themeResult =
                  [threw |-> FALSE,
                   value |-> [theme |-> providers[Len(providers)],
                              colors |-> defaultColors[providers[Len(providers)]],
                              setTheme |-> Len(providers)]]

\* C3 witness: useTheme was called outside every ThemeProvider and threw
C3_Witness ==
    /\ providers = <<>>
    /\ themeResult = Threw("useTheme must be used within a ThemeProvider")

\* C4: once the last call made was updateField(f, v) and React has applied
\* every queued update, the errors state holds no message for field f.
C4_ErrorClearedAfterUpdateField ==
    (lastCall.op = "updateField" /\ Queued = 0) =>
        ~Truthy(errors[lastCall.field])

\* C5: for every Media value exactly one of isPhoto and isVideo is true, and
\* MediaItem renders the photo branch for a photo and the video branch for a
\* video, never its final return null.
C5_GuardsPartitionMedia ==
    /\ isPhoto(media) # isVideo(media)
    /\ rendered # NoResult =>
          /\ rendered.branch # "null"
          /\ rendered.branch = media.type

\* C5 witness: a video has been rendered by the video branch
C5_Witness ==
    /\ media.type = "video"
    /\ rendered # NoResult
    /\ rendered.branch = "video"

\* The state updates of one execution of loadUserData: setLoading(false) is
\* made at most once and nothing follows it; when the execution has ended
\* there are exactly two updates, setUser(user) if fetchUser resolved or
\* setError(message) if it rejected, then setLoading(false).
LoadUpdatesInOrder ==
    /\ \A i \in 1..Len(calls) : calls[i].fn = "setLoading" => i = Len(calls)
    /\ pc = "done" =>
          /\ Len(calls) = 2
          /\ calls[2] = Call("setLoading", FALSE)
          /\ IF settled \in Users
             THEN calls[1] = Call("setUser", settled)
             ELSE calls[1] = Call("setError", settled.message)

\* C6: every execution of loadUserData in which fetchUser settles goes on to
\* call setLoading(false), exactly once and as its last state update, after
\* exactly one of setUser (fetchUser resolved) and setError (it rejected).
C6_LoadUserDataUpdates ==
    /\ []LoadUpdatesInOrder
    /\ (pc \in {"resolved", "rejected"}) ~> (pc = "done")

\* C6 witness: an execution whose fetchUser rejected on an HTTP error has ended
C6_Witness ==
    /\ pc = "done"
    /\ settled = NewError("Error", "HTTP error: 404")
    /\ error = "HTTP error: 404"
    /\ loading = FALSE
====
